---- MODULE Spec2Model ----
(***************************************************************************)
(* Model of the voice-to-text pipeline of discord-realtime-voice2text-bot: *)
(* the Segmenter (audio/segmenter.go), the ssrcResolver                    *)
(* (discordbot/bot.go), the Receiver with its pending streams              *)
(* (audio/receiver.go), the Aggregator (transcript/aggregator.go) and the  *)
(* Bot's voice handlers, noise filter and shutdown (discordbot/bot.go).    *)
(* Every mutex-protected critical section is one     *)
(* atomic action; a goroutine's position between two critical sections is  *)
(* a pc field.  A time.Timer is a small state machine: "armed" (Stop       *)
(* still prevents it), "expired"/"fired" (the runtime has fired it: an     *)
(* AfterFunc callback is started and waits for the mutex, a NewTimer has   *)
(* put its value on C), and "stopped"/"done".  Real time is abstracted:    *)
(* an armed timer may expire at any moment.                                *)
(***************************************************************************)
EXTENDS Integers, Sequences, FiniteSets, TLC

\* ---------------------------------------------------------------- bounds
\* AddSamples calls made directly on the Segmenter in SpecSegmenter.
MaxAdds == 3
\* Segmenter.Stop calls.
MaxStops == 2
\* Longest decoded frame, in samples (frameSamples = 960, scaled down).
MaxFrameLen == 2
\* Cap on the samples of one pending stream (maxPendingSamples, scaled down
\* to the same unit as MaxFrameLen).
MaxPendingSamples == 2
\* Packets taken from the packet stream.
MaxPackets == 3
\* Speaking updates (set calls) while the Receiver runs.
MaxBinds == 1
\* set and Wait calls made directly on the resolver in SpecResolver.
MaxCalls == 4
\* maxDiscordMessageLength (2000), scaled down.
maxDiscordMessageLength == 3
\* AddLine calls in SpecAggregator.
MaxLines == 3
\* Window timers whose callback has started and waits for a.mu at one time.
MaxExpired == 1
\* audio.SampleRate (48000 samples per second), scaled down.
SampleRate == 20
\* Longest segment handed to consumeSegment in SpecFilter, in samples.
MaxSegmentLen == 9
\* AddLine calls in SpecShutdown.
MaxShutdownLines == 2
\* !join and !leave commands in SpecBot.
MaxCommands == 3
\* Packets taken from the packet stream in SpecPipeline.
MaxPipePackets == 2

Users == {"A", "B"}
NoUser == ""
Ssrcs == {1, 2}

VARIABLES
    \* Segmenter
    buffers,    \* Segmenter.buffers: userID -> index into bufs (the *userBuffer)
    bufs,       \* every userBuffer allocated so far: [samples, timer]
    timers,     \* every silence timer created so far: [userID, buf, state]
    segments,   \* consumer invocations started by flushLocked, in start order
    delivered,  \* history: the AddSamples calls, in the order they took the mutex
    late,       \* history: userID -> an AddSamples call found the timer expired
    stops,      \* history: number of Stop calls
    \* ssrcResolver
    mapping,    \* ssrcResolver.mapping: ssrc -> userID
    waiters,    \* ssrcResolver.waiters: ssrc -> sequence of channels (Wait ids)
    waits,      \* every Wait call so far, with its channel and its timer
    sets,       \* every set call so far, with the channels it still has to send on
    \* Receiver
    pending,    \* Receiver.pending: ssrc -> [frames, totalSamples, waiting]
    unknownSSRC,\* Receiver.unknownSSRC
    decoders,   \* consume's decoders map: ssrc -> the decoder (numbered by creation)
    loop,       \* the packet loop: [pc, ssrc, userID, pcm]
    packets,    \* history: ssrc of every packet taken from the stream, by sequence
    awaits,     \* every awaitMapping goroutine: [ssrc, pc, wait, userID, frames, lost]
    hist,       \* history: sets of frame sequence numbers, see InitReceiver
    \* Aggregator
    aggCurrent, \* Aggregator.current: index into states (0: nil)
    states,     \* every messageState allocated so far: [id, lines, content, timer, closedBy, closedAt]
    aggTimers,  \* every window timer created so far: [msg, state, saw]
    mu,         \* Aggregator.mu: the AddLine call that holds it (0: free)
    calls,      \* every AddLine call so far, with its position
    sink,       \* history: the SendMessage / EditMessage calls that have returned
    \* Bot and the pipeline of one voice handler
    leave,      \* leaveVoiceChannel on the handler: "none", "cancelled" (ctx is done), "stopped"
    flushed,    \* history: consumer invocations started when the last Stop returned
    smuWait,    \* the consumer invocations the holder of Segmenter.mu waits for
    consumed,   \* the consumer invocations that have returned
    down,       \* history: Bot.shutdown has returned: [done, sinkLen]
    filt,       \* consumeSegment's first step on one segment: [pc, samples, sent]
    activeVoiceListeners, \* Bot.activeVoiceListeners: guildID -> index into handlers
    handlers,   \* every voiceHandler pipeline started so far
    commands    \* every joinVoiceChannel / leaveVoiceChannel call so far, with its position

segVars == <<buffers, bufs, timers, segments, delivered, late, stops>>
resVars == <<mapping, waiters, waits, sets>>
rcvVars == <<pending, unknownSSRC, decoders, loop, packets, awaits, hist>>
aggVars == <<aggCurrent, states, aggTimers, mu, calls, sink>>
botVars == <<leave, flushed, smuWait, consumed, down, filt,
             activeVoiceListeners, handlers, commands>>
vars == <<buffers, bufs, timers, segments, delivered, late, stops,
          mapping, waiters, waits, sets,
          pending, unknownSSRC, decoders, loop, packets, awaits, hist,
          aggCurrent, states, aggTimers, mu, calls, sink,
          leave, flushed, smuWait, consumed, down, filt,
          activeVoiceListeners, handlers, commands>>

\* ---------------------------------------------------------------- helpers
RECURSIVE SumLen(_)
SumLen(ss) == IF ss = <<>> THEN 0 ELSE Len(Head(ss)) + SumLen(Tail(ss))

Range(s) == {s[i] : i \in 1..Len(s)}

\* A map (a function with a finite domain) with key k set / removed.
MapPut(m, k, v) == [x \in DOMAIN m \cup {k} |-> IF x = k THEN v ELSE m[x]]
MapDel(m, k) == [x \in DOMAIN m \ {k} |-> m[x]]
EmptyMap == [x \in {} |-> 0]

\* A decoded frame of n samples of the packet with sequence number k.
Frame(k, n) == [i \in 1..n |-> k]

\* ============================================================== Segmenter
InitSegmenter ==
    /\ buffers = EmptyMap
    /\ bufs = <<>>
    /\ timers = <<>>
    /\ segments = <<>>
    /\ delivered = <<>>
    /\ late = [u \in Users |-> FALSE]
    /\ stops = 0

\* time.Timer.Stop on timer t (0: the nil timer): it prevents an armed timer
\* from firing and does nothing to one whose callback has started.
TimerStop(ts, t) ==
    IF t # 0 /\ ts[t].state = "armed" THEN [ts EXCEPT ![t].state = "stopped"]
    ELSE ts

\* resetTimerLocked: stop the buffer's timer, arm a new one that captures
\* (userID, buf).  Returns the timers; the new timer is the last one.  A
\* callback that has run is "done", or "stale" when it found another buffer
\* (or none) under its userID and returned.
resetTimerLockedNoStop(ts, userID, b, old) ==
    Append(ts, [userID |-> userID, buf |-> b, state |-> "armed"])

resetTimerLockedGlobal(ts, userID, b, old) ==
    Append([t \in 1..Len(ts) |->
               IF ts[t].state = "armed" THEN [ts[t] EXCEPT !.state = "stopped"] ELSE ts[t]],
           [userID |-> userID, buf |-> b, state |-> "armed"])

resetTimerLocked(ts, userID, b, old) ==
    Append(TimerStop(ts, old), [userID |-> userID, buf |-> b, state |-> "armed"])

\* flushLocked on buffer b of userID, run by timer `by` (0: by Stop): returns
\* the buffers and the consumer invocations after it.
flushLocked(bs, segs, userID, b, by, upto) ==
    IF Len(bs[b].samples) = 0 THEN [bufs |-> bs, segments |-> segs]
    ELSE [bufs |-> [bs EXCEPT ![b].samples = <<>>],
          segments |-> Append(segs, [userID |-> userID, samples |-> bs[b].samples,
                                     by |-> by, latest |-> (by = bs[b].timer),
                                     upto |-> upto])]

\* AddSamples(userID, samples): the whole call, under s.mu.
AddSamples(userID, samples) ==
    /\ delivered' = Append(delivered, [userID |-> userID, samples |-> samples])
    /\ UNCHANGED <<segments, stops>>
    /\ IF Len(samples) = 0
       THEN UNCHANGED <<buffers, bufs, timers, late>>
       ELSE LET isNew == userID \notin DOMAIN buffers
                b == IF isNew THEN Len(bufs) + 1 ELSE buffers[userID]
                old == IF isNew THEN [samples |-> <<>>, timer |-> 0] ELSE bufs[b]
                ts == resetTimerLocked(timers, userID, b, old.timer)
                nb == [samples |-> old.samples \o samples, timer |-> Len(ts)]
            IN /\ buffers' = IF isNew THEN MapPut(buffers, userID, b) ELSE buffers
               /\ bufs' = IF isNew THEN Append(bufs, nb) ELSE [bufs EXCEPT ![b] = nb]
               /\ timers' = ts
               /\ late' = IF userID \in Users /\ old.timer # 0
                             /\ timers[old.timer].state = "expired"
                          THEN [late EXCEPT ![userID] = TRUE]
                          ELSE late

\* The runtime fires an armed silence timer: its callback is started and
\* will take s.mu.
TimerExpire(t) ==
    /\ timers[t].state = "armed"
    /\ timers' = [timers EXCEPT ![t].state = "expired"]
    /\ UNCHANGED <<buffers, bufs, segments, delivered, late, stops>>

\* The callback of resetTimerLocked, under s.mu.
TimerCallback(t) ==
    /\ timers[t].state = "expired"
    /\ LET userID == timers[t].userID
           buf == timers[t].buf
           current == IF userID \in DOMAIN buffers THEN buffers[userID] ELSE 0
       IN IF current # buf
          THEN /\ timers' = [timers EXCEPT ![t].state = "stale"]
               /\ UNCHANGED <<bufs, segments>>
          ELSE LET r == flushLocked(bufs, segments, userID, buf, t, Len(delivered))
               IN /\ timers' = [timers EXCEPT ![t].state = "done"]
                  /\ bufs' = r.bufs /\ segments' = r.segments
    /\ UNCHANGED <<buffers, delivered, late, stops>>

\* Stop's loop over s.buffers in the order `order` (Go's map order is not
\* specified): stop the timer, flush, delete.
RECURSIVE StopLoop(_, _, _, _, _)
StopLoop(order, bs, ts, segs, upto) ==
    IF order = <<>> THEN [bufs |-> bs, timers |-> ts, segments |-> segs]
    ELSE LET userID == Head(order)
             b == buffers[userID]
             r == flushLocked(bs, segs, userID, b, 0, upto)
         IN StopLoop(Tail(order), r.bufs, TimerStop(ts, bs[b].timer), r.segments, upto)

Orders(S) == {o \in [1..Cardinality(S) -> S] : Range(o) = S}

StopKeepBuffers ==
    /\ \E order \in Orders(DOMAIN buffers) :
          LET r == StopLoop(order, bufs, timers, segments, Len(delivered))
          IN /\ bufs' = r.bufs
             /\ timers' = r.timers
             /\ segments' = r.segments
    /\ buffers' = buffers
    /\ stops' = stops + 1
    /\ UNCHANGED <<delivered, late>>

Stop ==
    /\ \E order \in Orders(DOMAIN buffers) :
          LET r == StopLoop(order, bufs, timers, segments, Len(delivered))
          IN /\ bufs' = r.bufs
             /\ timers' = r.timers
             /\ segments' = r.segments
    /\ buffers' = EmptyMap
    /\ stops' = stops + 1
    /\ UNCHANGED <<delivered, late>>

\* The Segmenter driven directly by its callers.  AddSamples only tells an
\* empty slice from a non-empty one, so the calls carry zero or one sample.
SegFrameLens == 0..1

SegAddSamples ==
    /\ Len(delivered) < MaxAdds
    /\ \E userID \in Users, n \in SegFrameLens :
          AddSamples(userID, Frame(Len(delivered) + 1, n))
    /\ UNCHANGED <<resVars, rcvVars, aggVars, botVars>>

SegTimerExpire ==
    /\ \E t \in 1..Len(timers) : TimerExpire(t)
    /\ UNCHANGED <<resVars, rcvVars, aggVars, botVars>>

SegTimerCallback ==
    /\ \E t \in 1..Len(timers) : TimerCallback(t)
    /\ UNCHANGED <<resVars, rcvVars, aggVars, botVars>>

SegStop ==
    /\ stops < MaxStops
    /\ Stop
    /\ UNCHANGED <<resVars, rcvVars, aggVars, botVars>>

\* ============================================================== claims: Segmenter
\* The samples of the AddSamples calls lo+1..hi made for userID, concatenated.
RECURSIVE AppendedTo(_, _, _)
AppendedTo(userID, lo, hi) ==
    IF hi <= lo THEN <<>>
    ELSE AppendedTo(userID, lo, hi - 1)
         \o (IF delivered[hi].userID = userID THEN delivered[hi].samples ELSE <<>>)

\* The samples of the first n consumer invocations for userID, concatenated.
RECURSIVE EmittedTo(_, _)
EmittedTo(userID, n) ==
    IF n = 0 THEN <<>>
    ELSE EmittedTo(userID, n - 1)
         \o (IF segments[n].userID = userID THEN segments[n].samples ELSE <<>>)

\* The number of AddSamples calls made when the segment before segment i of
\* the same user was emitted (0: there is none).
PrevUpto(i) ==
    LET earlier == {j \in 1..(i - 1) : segments[j].userID = segments[i].userID}
    IN IF earlier = {} THEN 0
       ELSE segments[CHOOSE j \in earlier : \A k \in earlier : k <= j].upto

Buffered(userID) ==
    IF userID \in DOMAIN buffers THEN bufs[buffers[userID]].samples ELSE <<>>

\* C1: for an identity whose AddSamples calls all arrived before the timer
\* armed by the previous call had expired, every segment a silence timer
\* hands to the consumer is emitted by the timer the last call armed and is
\* the concatenation, in arrival order, of all samples appended since the
\* previous segment; once that timer has run nothing of the utterance is
\* left behind, and nothing is emitted twice.
C1_SilenceFlushIsWholeUtterance ==
    \A u \in Users : ~late[u] =>
        /\ \A i \in 1..Len(segments) :
              segments[i].userID = u =>
                 /\ segments[i].by # 0 => segments[i].latest
                 /\ segments[i].samples = AppendedTo(u, PrevUpto(i), segments[i].upto)
                 /\ segments[i].samples # <<>>
        /\ EmittedTo(u, Len(segments)) \o Buffered(u) = AppendedTo(u, 0, Len(delivered))
        /\ u \in DOMAIN buffers =>
              LET t == bufs[buffers[u]].timer
              IN timers[t].state = "done" => Buffered(u) = <<>>

\* A silence timer has emitted a segment made of two AddSamples calls.
C1_Witness ==
    \E i \in 1..Len(segments) :
        /\ segments[i].by # 0
        /\ ~late[segments[i].userID]
        /\ Len(segments[i].samples) >= 2
        /\ segments[i].samples[1] # segments[i].samples[Len(segments[i].samples)]

\* C2: a timer that AddSamples has re-armed over never emits a segment
\* afterwards: every segment a timer emits is emitted by the timer that is
\* the buffer's current one.
C2_StaleTimerNeverFlushes ==
    \A i \in 1..Len(segments) : segments[i].by # 0 => segments[i].latest

\* The identities Stop finds with samples in their buffer.
NonEmptyBuffers == {u \in DOMAIN buffers : Buffered(u) # <<>>}

\* The segments a step has added.
NewSegments == SubSeq(segments', Len(segments) + 1, Len(segments'))

\* C20: Stop cancels every identity's timer, emits exactly one final segment
\* with the remaining samples for each identity whose buffer is non-empty
\* and no other, and leaves the buffer map empty; a Stop that finds the map
\* empty, and a timer callback that finds its buffer gone, emit nothing.
C20_StopFlushesEachBufferOnce ==
    /\ [][stops' = stops + 1 =>
            /\ buffers' = EmptyMap
            /\ \A u \in DOMAIN buffers :
                  timers[bufs[buffers[u]].timer].state = "armed"
                      => timers'[bufs[buffers[u]].timer].state = "stopped"
            /\ Len(NewSegments) = Cardinality(NonEmptyBuffers)
            /\ \A u \in NonEmptyBuffers :
                  \E i \in 1..Len(NewSegments) :
                      /\ NewSegments[i].userID = u
                      /\ NewSegments[i].samples = Buffered(u)
                      /\ NewSegments[i].by = 0
            /\ buffers = EmptyMap => segments' = segments]_vars
    /\ [][\A t \in 1..Len(timers) :
            (timers[t].state = "expired" /\ timers'[t].state # "expired"
               /\ (timers[t].userID \notin DOMAIN buffers
                     \/ buffers[timers[t].userID] # timers[t].buf))
                => segments' = segments /\ bufs' = bufs]_vars

\* Stop has flushed two identities at once, a second Stop has followed it,
\* and a timer armed before the first Stop has run its callback after it.
C20_Witness ==
    /\ stops = 2
    /\ buffers = EmptyMap
    /\ \E i, j \in 1..Len(segments) :
          /\ segments[i].by = 0 /\ segments[j].by = 0
          /\ segments[i].userID # segments[j].userID
    /\ \E t \in 1..Len(timers) : timers[t].state = "stale"
    /\ Cardinality({i \in 1..Len(segments) : segments[i].by = 0}) = 2

\* The armed silence timer of userID's buffer (0: none).
ArmedTimer(userID) ==
    IF userID \in DOMAIN buffers /\ timers[bufs[buffers[userID]].timer].state = "armed"
    THEN bufs[buffers[userID]].timer ELSE 0

\* The step is an AddSamples call for userID, or the expiry or the callback
\* of one of userID's silence timers.
StepFor(userID) ==
    \/ /\ Len(delivered') = Len(delivered) + 1
       /\ delivered'[Len(delivered')].userID = userID
    \/ /\ delivered' = delivered /\ stops' = stops
       /\ \E t \in 1..Len(timers) :
             timers[t].userID = userID /\ timers'[t].state # timers[t].state

\* C28: an AddSamples call for identity A and the firing of one of A's
\* silence timers leave every other identity's buffer entry, buffered
\* samples and armed timer as they were, and emit no segment for it.
C28_SpeakersIndependent ==
    [][\A A \in Users : StepFor(A) =>
          \A B \in Users \ {A} :
              /\ (B \in DOMAIN buffers') = (B \in DOMAIN buffers)
              /\ Buffered(B)' = Buffered(B)
              /\ ArmedTimer(B)' = ArmedTimer(B)
              /\ \A i \in 1..Len(NewSegments) : NewSegments[i].userID # B]_vars

\* A silence timer of one identity has emitted a segment after another
\* identity's samples were appended, and those samples are still buffered
\* under their own armed timer.
C28_Witness ==
    \E A, B \in Users :
        /\ A # B
        /\ Buffered(B) # <<>>
        /\ ArmedTimer(B) # 0
        /\ \A i \in 1..Len(segments) : segments[i].userID # B
        /\ \E i \in 1..Len(segments) :
              /\ segments[i].userID = A /\ segments[i].by # 0
              /\ \E k \in 1..segments[i].upto :
                    delivered[k].userID = B /\ delivered[k].samples # <<>>

\* ============================================================== ssrcResolver
InitResolver ==
    /\ mapping = EmptyMap
    /\ waiters = EmptyMap
    /\ waits = <<>>
    /\ sets = <<>>

WaitersOf(ssrc) == IF ssrc \in DOMAIN waiters THEN waiters[ssrc] ELSE <<>>

\* history: the Wait calls blocked in their select on ssrc that no set has
\* taken off the wait list yet.
BlockedOn(ssrc) ==
    {w \in 1..Len(waits) :
        /\ waits[w].ssrc = ssrc
        /\ waits[w].pc = "select"
        /\ waits[w].sent = <<>>
        /\ \A k \in 1..Len(sets) : w \notin Range(sets[k].todo)}

\* set(ssrc, userID), up to r.mu.Unlock(): the sends happen after it, one
\* setSend step per channel.
setWakeFirstOnly(ssrc, userID) ==
    /\ IF userID = NoUser
       THEN /\ sets' = Append(sets, [ssrc |-> ssrc, userID |-> userID,
                                     blocked |-> {}, todo |-> <<>>])
            /\ UNCHANGED <<mapping, waiters>>
       ELSE /\ mapping' = MapPut(mapping, ssrc, userID)
            /\ waiters' = MapDel(waiters, ssrc)
            /\ sets' = Append(sets, [ssrc |-> ssrc, userID |-> userID,
                                     blocked |-> BlockedOn(ssrc),
                                     todo |-> IF WaitersOf(ssrc) = <<>> THEN <<>>
                                              ELSE <<Head(WaitersOf(ssrc))>>])
    /\ UNCHANGED waits

setStoreEmpty(ssrc, userID) ==
    /\ mapping' = MapPut(mapping, ssrc, userID)
    /\ waiters' = MapDel(waiters, ssrc)
    /\ sets' = Append(sets, [ssrc |-> ssrc, userID |-> userID,
                             blocked |-> BlockedOn(ssrc), todo |-> WaitersOf(ssrc)])
    /\ UNCHANGED waits

set(ssrc, userID) ==
    /\ IF userID = NoUser
       THEN /\ sets' = Append(sets, [ssrc |-> ssrc, userID |-> userID,
                                     blocked |-> {}, todo |-> <<>>])
            /\ UNCHANGED <<mapping, waiters>>
       ELSE /\ mapping' = MapPut(mapping, ssrc, userID)
            /\ waiters' = MapDel(waiters, ssrc)
            /\ sets' = Append(sets, [ssrc |-> ssrc, userID |-> userID,
                                     blocked |-> BlockedOn(ssrc),
                                     todo |-> WaitersOf(ssrc)])
    /\ UNCHANGED waits

\* ch <- userID can complete on the channel of Wait call w, made by
\* make(chan string, 1): its buffer has room.  (On an unbuffered channel it
\* would need the caller to be in its select.)
canSendUnbuffered(w) ==
    waits[w].pc = "select" /\ Len(waits[w].ch) < 1 /\ ~waits[w].closed

canSend(w) == Len(waits[w].ch) < 1 /\ ~waits[w].closed

\* One round of set's loop: ch <- userID; close(ch).  The channel holds one
\* value, so the send waits while it is full.
setSend(k) ==
    /\ sets[k].todo # <<>>
    /\ LET w == Head(sets[k].todo)
       IN /\ canSend(w)
          /\ waits' = [waits EXCEPT ![w].ch = Append(@, sets[k].userID),
                                    ![w].closed = TRUE,
                                    ![w].sent = Append(@, sets[k].userID)]
    /\ sets' = [sets EXCEPT ![k].todo = Tail(@)]
    /\ UNCHANGED <<mapping, waiters>>

\* Resolve(ssrc): (userID, ok).
Resolve(ssrc) ==
    IF ssrc \in DOMAIN mapping THEN [userID |-> mapping[ssrc], ok |-> TRUE]
    ELSE [userID |-> NoUser, ok |-> FALSE]

\* Wait(ssrc, timeout), up to the select: return at once when the ssrc is
\* bound, else make the channel, register it and arm the timer.
WaitEnter(ssrc) ==
    /\ IF ssrc \in DOMAIN mapping
       THEN /\ waits' = Append(waits, [ssrc |-> ssrc, pc |-> "done", ch |-> <<>>,
                                       closed |-> FALSE, sent |-> <<>>,
                                       timer |-> "none", userID |-> mapping[ssrc],
                                       ok |-> TRUE, registered |-> FALSE,
                                       boundBeforeTimeout |-> FALSE])
            /\ UNCHANGED waiters
       ELSE /\ waits' = Append(waits, [ssrc |-> ssrc, pc |-> "select", ch |-> <<>>,
                                       closed |-> FALSE, sent |-> <<>>,
                                       timer |-> "armed", userID |-> NoUser,
                                       ok |-> FALSE, registered |-> TRUE,
                                       boundBeforeTimeout |-> FALSE])
            /\ waiters' = MapPut(waiters, ssrc, Append(WaitersOf(ssrc), Len(waits) + 1))
    /\ UNCHANGED <<mapping, sets>>

\* The timeout of Wait call w elapses: the runtime puts a value on timer.C.
WaitTimerFire(w) ==
    /\ waits[w].pc = "select"
    /\ waits[w].timer = "armed"
    /\ waits' = [waits EXCEPT ![w].timer = "fired",
                              ![w].boundBeforeTimeout = (waits[w].ssrc \in DOMAIN mapping)]
    /\ UNCHANGED <<mapping, waiters, sets>>

\* select, case userID := <-ch: return userID, true.  The deferred
\* timer.Stop() ends the timer, fired or not.  A closed, drained channel
\* yields the zero value.
WaitRecv(w) ==
    /\ waits[w].pc = "select"
    /\ waits[w].ch # <<>> \/ waits[w].closed
    /\ waits' = [waits EXCEPT ![w].pc = "done",
                              ![w].userID = IF waits[w].ch # <<>> THEN Head(waits[w].ch)
                                            ELSE NoUser,
                              ![w].ok = TRUE,
                              ![w].ch = IF @ # <<>> THEN Tail(@) ELSE @,
                              ![w].timer = "stopped",
                              ![w].boundBeforeTimeout = FALSE]
    /\ UNCHANGED <<mapping, waiters, sets>>

\* select, case <-timer.C: the call goes on to take r.mu.  When the channel
\* is ready too, Go picks either case.
WaitTimeout(w) ==
    /\ waits[w].pc = "select"
    /\ waits[w].timer = "fired"
    /\ waits' = [waits EXCEPT ![w].pc = "cleanup"]
    /\ UNCHANGED <<mapping, waiters, sets>>

RECURSIVE RemoveFirst(_, _)
RemoveFirst(s, x) ==
    IF s = <<>> THEN <<>>
    ELSE IF Head(s) = x THEN Tail(s) ELSE <<Head(s)>> \o RemoveFirst(Tail(s), x)

\* The timeout branch under r.mu: take the channel off the wait list, drop
\* the key when the list is empty, return ("", false).
WaitCleanupLeak(w) ==
    /\ waits[w].pc = "cleanup"
    /\ waits' = [waits EXCEPT ![w].pc = "done", ![w].userID = NoUser, ![w].ok = FALSE]
    /\ UNCHANGED <<mapping, waiters, sets>>

WaitCleanup(w) ==
    /\ waits[w].pc = "cleanup"
    /\ LET ssrc == waits[w].ssrc
       IN IF ssrc \in DOMAIN waiters
          THEN LET rest == RemoveFirst(waiters[ssrc], w)
               IN waiters' = IF Len(rest) = 0 THEN MapDel(waiters, ssrc)
                             ELSE MapPut(waiters, ssrc, rest)
          ELSE UNCHANGED waiters
    /\ waits' = [waits EXCEPT ![w].pc = "done", ![w].userID = NoUser, ![w].ok = FALSE]
    /\ UNCHANGED <<mapping, sets>>

\* The resolver driven directly: speaking updates call set, callers call Wait.
ResSet ==
    /\ Len(sets) + Len(waits) < MaxCalls
    /\ \E ssrc \in Ssrcs, userID \in Users \cup {NoUser} : set(ssrc, userID)
    /\ UNCHANGED <<segVars, rcvVars, aggVars, botVars>>

ResSetSend ==
    /\ \E k \in 1..Len(sets) : setSend(k)
    /\ UNCHANGED <<segVars, rcvVars, aggVars, botVars>>

ResWaitEnter ==
    /\ Len(sets) + Len(waits) < MaxCalls
    /\ \E ssrc \in Ssrcs : WaitEnter(ssrc)
    /\ UNCHANGED <<segVars, rcvVars, aggVars, botVars>>

ResWaitTimerFire ==
    /\ \E w \in 1..Len(waits) : WaitTimerFire(w)
    /\ UNCHANGED <<segVars, rcvVars, aggVars, botVars>>

ResWaitRecv ==
    /\ \E w \in 1..Len(waits) : WaitRecv(w)
    /\ UNCHANGED <<segVars, rcvVars, aggVars, botVars>>

ResWaitTimeout ==
    /\ \E w \in 1..Len(waits) : WaitTimeout(w)
    /\ UNCHANGED <<segVars, rcvVars, aggVars, botVars>>

ResWaitCleanup ==
    /\ \E w \in 1..Len(waits) : WaitCleanup(w)
    /\ UNCHANGED <<segVars, rcvVars, aggVars, botVars>>

\* ============================================================== claims: ssrcResolver
\* C7: one set of a non-empty identity puts that identity, exactly once, on
\* the channel of every Wait call blocked on the ssrc at that moment (a
\* caller that returns through its channel returns that identity), no
\* channel ever gets a second value, and a bound ssrc has no wait list.
C7_SetWakesEveryWaiter ==
    /\ \A k \in 1..Len(sets) :
          (sets[k].userID # NoUser /\ sets[k].todo = <<>>) =>
             \A w \in sets[k].blocked :
                /\ waits[w].sent = <<sets[k].userID>>
                /\ waits[w].closed
                /\ (waits[w].pc = "done" /\ waits[w].ok)
                      => waits[w].userID = sets[k].userID
    /\ \A w \in 1..Len(waits) : Len(waits[w].sent) <= 1
    /\ \A ssrc \in DOMAIN mapping : ssrc \notin DOMAIN waiters

\* One set has woken two callers, and both have returned the identity.
C7_Witness ==
    \E k \in 1..Len(sets) :
        /\ sets[k].todo = <<>>
        /\ Cardinality(sets[k].blocked) >= 2
        /\ \A w \in sets[k].blocked :
              waits[w].pc = "done" /\ waits[w].ok /\ waits[w].userID = sets[k].userID

\* C8: Wait returns (identity, true) at once, registering nothing, when the
\* ssrc is bound on entry; otherwise it returns at the first of bind and
\* timeout, and never returns found=false for an ssrc that was bound before
\* the timeout elapsed.
C8_WaitReturnsFirstEvent ==
    \A w \in 1..Len(waits) :
        waits[w].pc = "done" =>
            /\ ~waits[w].registered => (waits[w].ok /\ waits[w].userID # NoUser)
            /\ ~waits[w].ok => ~waits[w].boundBeforeTimeout

\* C9: the wait list holds only the channels of Wait calls that have not
\* returned, each under its own ssrc and once, and no key with an empty list.
C9_NoLeakedWaiter ==
    \A ssrc \in DOMAIN waiters :
        /\ waiters[ssrc] # <<>>
        /\ \A i \in 1..Len(waiters[ssrc]) :
              LET w == waiters[ssrc][i]
              IN /\ waits[w].pc # "done"
                 /\ waits[w].ssrc = ssrc
                 /\ \A j \in 1..Len(waiters[ssrc]) : waiters[ssrc][j] = w => j = i

\* A Wait call has timed out and returned while another call still waits on
\* the same ssrc.
C9_Witness ==
    \E w \in 1..Len(waits) :
        /\ waits[w].pc = "done" /\ waits[w].registered /\ ~waits[w].ok
        /\ waits[w].ssrc \in DOMAIN waiters
        /\ \E v \in Range(waiters[waits[w].ssrc]) : v < w

\* history: the identity of the most recent set of a non-empty identity.
LastBind(ssrc) ==
    LET ks == {k \in 1..Len(sets) : sets[k].ssrc = ssrc /\ sets[k].userID # NoUser}
    IN IF ks = {} THEN [userID |-> NoUser, ok |-> FALSE]
       ELSE [userID |-> sets[CHOOSE k \in ks : \A j \in ks : j <= k].userID, ok |-> TRUE]

\* C10: a set with an empty identity changes neither the binding table nor
\* the wait list and wakes no waiter, and Resolve returns the identity of the
\* most recent non-empty set of the ssrc (found=false when there is none).
C10_EmptyBindIsNoOp ==
    /\ [](\A ssrc \in Ssrcs : Resolve(ssrc) = LastBind(ssrc))
    /\ [][(Len(sets') = Len(sets) + 1 /\ sets'[Len(sets')].userID = NoUser)
             => /\ mapping' = mapping
                /\ waiters' = waiters
                /\ waits' = waits
                /\ sets'[Len(sets')].todo = <<>>]_vars

\* An empty set has followed a bind of the same ssrc, with a caller of
\* another ssrc blocked, and Resolve still returns the bound identity.
C10_Witness ==
    \E k, j \in 1..Len(sets) :
        /\ k < j
        /\ sets[k].ssrc = sets[j].ssrc
        /\ sets[k].userID # NoUser /\ sets[j].userID = NoUser
        /\ Resolve(sets[k].ssrc) = [userID |-> sets[k].userID, ok |-> TRUE]
        /\ waiters # EmptyMap

\* The number of places that hold the channel of Wait call w for a send: the
\* wait lists and the channels the set calls still have to send on.
RECURSIVE Count(_, _)
Count(seq, x) ==
    IF seq = <<>> THEN 0 ELSE (IF Head(seq) = x THEN 1 ELSE 0) + Count(Tail(seq), x)

RECURSIVE SumOver(_, _)
SumOver(S, x) ==
    IF S = {} THEN 0
    ELSE LET e == CHOOSE e \in S : TRUE IN Count(e, x) + SumOver(S \ {e}, x)

Holders(w) ==
    SumOver({waiters[ssrc] : ssrc \in DOMAIN waiters}, w)
        + SumOver({sets[k].todo : k \in 1..Len(sets)}, w)

\* C31: the next send of every unfinished set can complete at once, a
\* Wait in its timeout branch can always finish, and a channel is held for
\* at most one send and gets at most one value.
C31_SetNeverBlocks ==
    /\ \A k \in 1..Len(sets) : sets[k].todo # <<>> => ENABLED setSend(k)
    /\ \A w \in 1..Len(waits) :
          /\ waits[w].pc = "cleanup" => ENABLED WaitCleanup(w)
          /\ Len(waits[w].sent) + Holders(w) <= 1

\* A set has sent on the channel of a Wait call that had already taken its
\* timeout branch and has returned found=false.
C31_Witness ==
    \E w \in 1..Len(waits), k \in 1..Len(sets) :
        /\ waits[w].pc = "done" /\ ~waits[w].ok
        /\ waits[w].sent = <<sets[k].userID>>
        /\ sets[k].todo = <<>>
        /\ waits[w].ssrc = sets[k].ssrc

\* ============================================================== Receiver
InitReceiver ==
    /\ pending = EmptyMap
    /\ unknownSSRC = {}
    /\ decoders = EmptyMap
    /\ loop = [pc |-> "recv", ssrc |-> 0, userID |-> NoUser, pcm |-> <<>>]
    /\ packets = <<>>
    /\ awaits = <<>>
    \* history, as sets of packet sequence numbers: frames that went through
    \* addPendingFrame, frames its cap evicted, frames clearPending deleted,
    \* frames drained after a Wait that returned found=true, packets that
    \* handlePacket dropped after decodeFrame, and those of them for which
    \* getDecoder returned an error.
    /\ hist = [buffered |-> {}, evicted |-> {}, cleared |-> {}, inTime |-> {},
               failed |-> {}, noDecoder |-> {}]

\* The sequence numbers of a list of frames (every sample of a frame is the
\* sequence number of its packet).
Seqs(frames) == {frames[i][1] : i \in 1..Len(frames)}

FramesOf(p, ssrc) == IF ssrc \in DOMAIN p THEN p[ssrc].frames ELSE <<>>

\* resolveImmediate(ssrc, initial); the Receiver always has a resolver.
resolveImmediate(ssrc, initial) ==
    IF initial # NoUser THEN initial
    ELSE IF Resolve(ssrc).ok THEN Resolve(ssrc).userID
    ELSE NoUser

\* The eviction loop of addPendingFrame: drop frames[0] while the total is
\* over the cap and a frame is left.
RECURSIVE Evict(_, _)
Evict(frames, total) ==
    IF total > MaxPendingSamples /\ Len(frames) > 0
    THEN Evict(Tail(frames), total - Len(Head(frames)))
    ELSE [frames |-> frames, totalSamples |-> total]

\* addPendingFrame(ssrc, pcm) under pendingMu: the stream after it, and
\* startWait.
addPendingFrameNoEvict(p, ssrc, pcm) ==
    LET stream == IF ssrc \in DOMAIN p THEN p[ssrc]
                  ELSE [frames |-> <<>>, totalSamples |-> 0, waiting |-> FALSE]
    IN [pending |-> MapPut(p, ssrc, [frames |-> Append(stream.frames, pcm),
                                     totalSamples |-> stream.totalSamples + Len(pcm),
                                     waiting |-> TRUE]),
        startWait |-> ~stream.waiting]

addPendingFrameAlwaysWait(p, ssrc, pcm) ==
    LET stream == IF ssrc \in DOMAIN p THEN p[ssrc]
                  ELSE [frames |-> <<>>, totalSamples |-> 0, waiting |-> FALSE]
        e == Evict(Append(stream.frames, pcm), stream.totalSamples + Len(pcm))
    IN [pending |-> MapPut(p, ssrc, [frames |-> e.frames,
                                     totalSamples |-> e.totalSamples,
                                     waiting |-> TRUE]),
        startWait |-> TRUE]

addPendingFrame(p, ssrc, pcm) ==
    LET stream == IF ssrc \in DOMAIN p THEN p[ssrc]
                  ELSE [frames |-> <<>>, totalSamples |-> 0, waiting |-> FALSE]
        e == Evict(Append(stream.frames, pcm), stream.totalSamples + Len(pcm))
    IN [pending |-> MapPut(p, ssrc, [frames |-> e.frames,
                                     totalSamples |-> e.totalSamples,
                                     waiting |-> TRUE]),
        startWait |-> ~stream.waiting]

\* drainPending(ssrc) returns FramesOf(pending, ssrc); it and clearPending
\* leave the map without the key.
clearPendingKeep(p, ssrc) == p

drainPendingKeep(p, ssrc) == p

drainPending(p, ssrc) == MapDel(p, ssrc)

clearPending(p, ssrc) == MapDel(p, ssrc)

\* The packets of SpecReceiver: their source ids, and the pkt.UserID the
\* transport may have filled in.
RcvSsrcs == {1}
PacketUserIDs == {NoUser, "A"}
\* The vs.UserID of the speaking updates of SpecReceiver.
BindUserIDs == {NoUser, "B"}

\* getDecoder(ssrc) of consume, under its mutex: the decoder of the ssrc,
\* created and stored on first use; created says whether gopus.NewDecoder
\* succeeds when it is called.
getDecoderShared(ds, ssrc, created) ==
    IF ssrc \in DOMAIN ds THEN [decoders |-> ds, ok |-> TRUE]
    ELSE IF ~created THEN [decoders |-> ds, ok |-> FALSE]
    ELSE [decoders |-> MapPut(ds, ssrc, 1), ok |-> TRUE]

getDecoder(ds, ssrc, created) ==
    IF ssrc \in DOMAIN ds THEN [decoders |-> ds, ok |-> TRUE]
    ELSE IF ~created THEN [decoders |-> ds, ok |-> FALSE]
    ELSE [decoders |-> MapPut(ds, ssrc, Cardinality(DOMAIN ds) + 1), ok |-> TRUE]

\* decodeFrame for packet k: nil when getDecoder or Decode fails, else the
\* n samples Decode returns (n = 0: Decode failed or returned nothing).
decodeFrame(k, ok, n) == IF ok THEN Frame(k, n) ELSE <<>>

\* handlePacket of a packet with a payload, up to and including
\* `if len(pcm) == 0 { return }`.
handlePacketDecode(ssrc, initial, created, n) ==
    LET k == Len(packets) + 1
        d == getDecoder(decoders, ssrc, created)
        pcm == decodeFrame(k, d.ok, n)
    IN /\ packets' = Append(packets, ssrc)
       /\ decoders' = d.decoders
       /\ loop' = IF Len(pcm) = 0 THEN loop
                  ELSE [pc |-> "deliver", ssrc |-> ssrc,
                        userID |-> resolveImmediate(ssrc, initial),
                        pcm |-> pcm]
       /\ hist' = IF Len(pcm) # 0 THEN hist
                  ELSE [hist EXCEPT !.failed = @ \cup {k},
                                    !.noDecoder = IF d.ok THEN @ ELSE @ \cup {k}]

\* The packet loop takes the next packet.  In SpecReceiver gopus.NewDecoder
\* succeeds: a packet is dropped because Decode fails, and what a failing
\* NewDecoder does is SpecDecode's subject.
RcvTake ==
    /\ loop.pc = "recv"
    /\ Len(packets) < MaxPackets
    /\ \E ssrc \in RcvSsrcs, initial \in PacketUserIDs, n \in 0..MaxFrameLen :
          handlePacketDecode(ssrc, initial, TRUE, n)
    /\ UNCHANGED <<segVars, resVars, pending, unknownSSRC, awaits, aggVars, botVars>>

\* The packet loop takes the next packet, of any source id, and
\* gopus.NewDecoder and Decode succeed or fail.
DecTake ==
    /\ loop.pc = "recv"
    /\ Len(packets) < MaxPackets
    /\ \E ssrc \in Ssrcs, initial \in PacketUserIDs, created \in BOOLEAN, n \in 0..1 :
          handlePacketDecode(ssrc, initial, created, n)
    /\ UNCHANGED <<segVars, resVars, pending, unknownSSRC, awaits, aggVars, botVars>>

\* The rest of handlePacket: bufferPending (addPendingFrame, and go
\* awaitMapping when it says so) for an unresolved frame, AddSamples for a
\* resolved one.
RcvDeliver ==
    /\ loop.pc = "deliver"
    /\ loop' = [loop EXCEPT !.pc = "recv"]
    /\ IF loop.userID = NoUser
       THEN LET r == addPendingFrame(pending, loop.ssrc, loop.pcm)
                before == Seqs(FramesOf(pending, loop.ssrc)) \cup Seqs(<<loop.pcm>>)
            IN /\ pending' = r.pending
               /\ awaits' = IF r.startWait
                            THEN Append(awaits, [ssrc |-> loop.ssrc, pc |-> "start",
                                                 wait |-> 0, userID |-> NoUser,
                                                 frames |-> <<>>, lost |-> {}])
                            ELSE awaits
               /\ hist' = [hist EXCEPT
                             !.buffered = @ \cup Seqs(<<loop.pcm>>),
                             !.evicted = @ \cup (before \ Seqs(r.pending[loop.ssrc].frames))]
               /\ UNCHANGED segVars
       ELSE /\ AddSamples(loop.userID, loop.pcm)
            /\ UNCHANGED <<pending, awaits, hist>>
    /\ UNCHANGED <<resVars, unknownSSRC, decoders, packets, aggVars, botVars>>

\* awaitMapping calls r.resolver.Wait.
AwaitStart(a) ==
    /\ awaits[a].pc = "start"
    /\ WaitEnter(awaits[a].ssrc)
    /\ awaits' = [awaits EXCEPT ![a].pc = "wait", ![a].wait = Len(waits) + 1]
    /\ UNCHANGED <<segVars, pending, unknownSSRC, decoders, loop, packets, hist, aggVars, botVars>>

\* awaitMapping after Wait has returned: logUnknownSSRC and clearPending when
\* it failed, drainPending when it succeeded.
AwaitReturn(a) ==
    /\ awaits[a].pc = "wait"
    /\ waits[awaits[a].wait].pc = "done"
    /\ LET w == waits[awaits[a].wait]
           ssrc == awaits[a].ssrc
           frames == FramesOf(pending, ssrc)
       IN IF ~w.ok \/ w.userID = NoUser
          THEN /\ unknownSSRC' = unknownSSRC \cup {ssrc}
               /\ pending' = clearPending(pending, ssrc)
               /\ awaits' = [awaits EXCEPT ![a].pc = "done"]
               /\ hist' = [hist EXCEPT !.cleared = @ \cup Seqs(frames)]
          ELSE /\ pending' = drainPending(pending, ssrc)
               /\ awaits' = [awaits EXCEPT
                               ![a].pc = IF frames = <<>> THEN "done" ELSE "replay",
                               ![a].userID = w.userID,
                               ![a].frames = frames]
               /\ hist' = [hist EXCEPT !.inTime = @ \cup Seqs(frames)]
               /\ UNCHANGED unknownSSRC
    /\ UNCHANGED <<segVars, resVars, decoders, loop, packets, aggVars, botVars>>

\* One round of awaitMapping's replay loop.
AwaitReplay(a) ==
    /\ awaits[a].pc = "replay"
    /\ AddSamples(awaits[a].userID, Head(awaits[a].frames))
    /\ awaits' = [awaits EXCEPT ![a].frames = Tail(@),
                                ![a].pc = IF Tail(awaits[a].frames) = <<>> THEN "done"
                                          ELSE "replay"]
    /\ UNCHANGED <<resVars, pending, unknownSSRC, decoders, loop, packets, hist, aggVars, botVars>>

\* The Wait of an awaitMapping returns found=false: the frames its stream
\* holds at that moment are the ones the timed-out wait leaves behind.
AwaitWaitCleanup(a) ==
    /\ awaits[a].pc = "wait"
    /\ WaitCleanup(awaits[a].wait)
    /\ awaits' = [awaits EXCEPT ![a].lost = Seqs(FramesOf(pending, awaits[a].ssrc))]
    /\ UNCHANGED <<segVars, pending, unknownSSRC, decoders, loop, packets, hist, aggVars, botVars>>

RcvAwaitStart == \E a \in 1..Len(awaits) : AwaitStart(a)

RcvAwaitReturn == \E a \in 1..Len(awaits) : AwaitReturn(a)

RcvAwaitReplay == \E a \in 1..Len(awaits) : AwaitReplay(a)

RcvWaitCleanup == \E a \in 1..Len(awaits) : AwaitWaitCleanup(a)

\* The speaking-update handler and the resolver's own steps, while the
\* Receiver runs.
RcvSet ==
    /\ Len(sets) < MaxBinds
    /\ \E ssrc \in RcvSsrcs, userID \in BindUserIDs : set(ssrc, userID)
    /\ UNCHANGED <<segVars, rcvVars, aggVars, botVars>>

RcvSetSend ==
    /\ \E k \in 1..Len(sets) : setSend(k)
    /\ UNCHANGED <<segVars, rcvVars, aggVars, botVars>>

RcvWaitTimerFire ==
    /\ \E w \in 1..Len(waits) : WaitTimerFire(w)
    /\ UNCHANGED <<segVars, rcvVars, aggVars, botVars>>

RcvWaitRecv ==
    /\ \E w \in 1..Len(waits) : WaitRecv(w)
    /\ UNCHANGED <<segVars, rcvVars, aggVars, botVars>>

RcvWaitTimeout ==
    /\ \E w \in 1..Len(waits) : WaitTimeout(w)
    /\ UNCHANGED <<segVars, rcvVars, aggVars, botVars>>

\* ============================================================== claims: Receiver
\* The packet sequence number of the i-th AddSamples call.
DeliveredSeq(i) == delivered[i].samples[1]

DeliveredSet == {DeliveredSeq(i) : i \in 1..Len(delivered)}

\* C3: for each source id the frames reach AddSamples in the order their
\* packets were taken from the packet stream.
C3_PerSourceOrderPreserved ==
    \A i, j \in 1..Len(delivered) :
        (i < j /\ packets[DeliveredSeq(i)] = packets[DeliveredSeq(j)])
            => DeliveredSeq(i) < DeliveredSeq(j)

\* C4: the frames buffered for a source id whose wait ended with a binding
\* are never discarded, reach AddSamples in the order they were buffered,
\* each once, and all of them once every awaitMapping has finished.
C4_BufferedFramesReplayedInOrder ==
    /\ \A i, j \in 1..Len(delivered) :
          (i < j /\ DeliveredSeq(i) \in hist.inTime /\ DeliveredSeq(j) \in hist.inTime
             /\ packets[DeliveredSeq(i)] = packets[DeliveredSeq(j)])
              => DeliveredSeq(i) < DeliveredSeq(j)
    /\ hist.inTime \cap hist.cleared = {}
    /\ (\A a \in 1..Len(awaits) : awaits[a].pc = "done") => hist.inTime \subseteq DeliveredSet

\* C5: the frames a pending stream holds when its wait returns found=false
\* are never passed to AddSamples, and are gone from the pending map once
\* that awaitMapping has finished, whatever is bound later.
C5_TimedOutFramesNeverDelivered ==
    \A a \in 1..Len(awaits) :
        /\ awaits[a].lost \cap DeliveredSet = {}
        /\ awaits[a].pc = "done"
              => awaits[a].lost \cap Seqs(FramesOf(pending, awaits[a].ssrc)) = {}

\* A wait has timed out with frames buffered, the source id was bound
\* afterwards, and a later frame of it has been delivered.
C5_Witness ==
    \E a \in 1..Len(awaits) :
        /\ awaits[a].lost # {}
        /\ awaits[a].pc = "done"
        /\ awaits[a].ssrc \in DOMAIN mapping
        /\ \E i \in 1..Len(delivered) :
              /\ packets[DeliveredSeq(i)] = awaits[a].ssrc
              /\ delivered[i].userID = mapping[awaits[a].ssrc]
              /\ \A f \in awaits[a].lost : f < DeliveredSeq(i)

\* C6: a pending stream never holds more samples than the cap, its running
\* total is the sum of its frames, and a frame added to it leaves the longest
\* suffix of the old frames plus the new one that fits the cap (the oldest
\* frames go first).
C6_PendingNeverExceedsCap ==
    /\ [](\A ssrc \in DOMAIN pending :
             /\ pending[ssrc].totalSamples <= MaxPendingSamples
             /\ pending[ssrc].totalSamples = SumLen(pending[ssrc].frames))
    /\ [][(loop.pc = "deliver" /\ loop.userID = NoUser /\ loop'.pc = "recv")
             => LET all == Append(FramesOf(pending, loop.ssrc), loop.pcm)
                    kept == pending'[loop.ssrc].frames
                    k == Len(all) - Len(kept)
                IN /\ k >= 0
                   /\ kept = SubSeq(all, k + 1, Len(all))
                   /\ k > 0 => SumLen(SubSeq(all, k, Len(all))) > MaxPendingSamples]_vars

\* Two frames have been evicted from a stream that is now full.
C6_Witness ==
    \E ssrc \in DOMAIN pending :
        /\ Cardinality(hist.evicted) >= 2
        /\ pending[ssrc].totalSamples = MaxPendingSamples

\* The awaitMapping goroutines of ssrc that have not yet taken its stream out
\* of the map.
WaitsInFlight(ssrc) ==
    {a \in 1..Len(awaits) : awaits[a].ssrc = ssrc /\ awaits[a].pc \in {"start", "wait"}}

\* C25: a source id has at most one awaitMapping in flight; it has one
\* exactly while its pending stream is in the map, and every stream in the
\* map has its waiting flag set.
C25_OneWaitPerSource ==
    \A ssrc \in Ssrcs :
        /\ Cardinality(WaitsInFlight(ssrc)) <= 1
        /\ (ssrc \in DOMAIN pending) = (WaitsInFlight(ssrc) # {})
        /\ ssrc \in DOMAIN pending => pending[ssrc].waiting

\* A second stream of the same source id, created after the first wait had
\* ended, holds two frames and one wait is in flight for it.
C25_Witness ==
    \E ssrc \in Ssrcs :
        /\ ssrc \in DOMAIN pending
        /\ Len(pending[ssrc].frames) = 2
        /\ Cardinality({a \in 1..Len(awaits) : awaits[a].ssrc = ssrc}) = 2
        /\ Cardinality(WaitsInFlight(ssrc)) = 1

\* C26: a pending stream that is in the map is eventually taken out of it,
\* when the awaitMapping goroutine and the timer of its Wait are scheduled
\* fairly.
C26_PendingStreamEventuallyDestroyed ==
    \A ssrc \in Ssrcs : (ssrc \in DOMAIN pending) ~> (ssrc \notin DOMAIN pending)

\* One stream was destroyed by the wait timeout and a later one of the same
\* source id by a successful bind.
C26_Witness ==
    /\ pending = EmptyMap
    /\ hist.cleared # {}
    /\ hist.inTime # {}

\* The packet sequence numbers of the frames that reached the Segmenter.
SegmenterSeqs == {delivered[i].samples[1] : i \in {j \in 1..Len(delivered) : delivered[j].samples # <<>>}}

EncodeRune(r) ==
    IF r < 128 THEN <<r>>
    ELSE IF r < 2048 THEN <<192 + (r \div 64), 128 + (r % 64)>>
    ELSE <<224 + (r \div 4096), 128 + ((r \div 64) % 64), 128 + (r % 64)>>

\* string(runes)
RECURSIVE EncodeRunes(_)
EncodeRunes(rs) ==
    IF rs = <<>> THEN <<>> ELSE EncodeRune(Head(rs)) \o EncodeRunes(Tail(rs))

IsCont(b) == b \in 128..191

\* []rune(line): a byte that does not start a well-formed sequence decodes
\* to U+FFFD and one byte is consumed.
RECURSIVE DecodeRunes(_)
DecodeRunes(b) ==
    IF b = <<>> THEN <<>>
    ELSE IF Head(b) < 128 THEN <<Head(b)>> \o DecodeRunes(Tail(b))
    ELSE IF Head(b) \in 194..223 /\ Len(b) >= 2 /\ IsCont(b[2])
         THEN <<(Head(b) - 192) * 64 + (b[2] - 128)>>
                  \o DecodeRunes(SubSeq(b, 3, Len(b)))
    ELSE IF Head(b) \in 224..239 /\ Len(b) >= 3 /\ IsCont(b[2]) /\ IsCont(b[3])
         THEN <<(Head(b) - 224) * 4096 + (b[2] - 128) * 64 + (b[3] - 128)>>
                  \o DecodeRunes(SubSeq(b, 4, Len(b)))
    ELSE <<65533>> \o DecodeRunes(Tail(b))

\* The white space strings.TrimSpace removes (the ASCII part of it).
IsSpace(b) == b \in {9, 10, 11, 12, 13, 32}

RECURSIVE TrimLeft(_)
TrimLeft(b) == IF b # <<>> /\ IsSpace(Head(b)) THEN TrimLeft(Tail(b)) ELSE b

RECURSIVE TrimRight(_)
TrimRight(b) ==
    IF b # <<>> /\ IsSpace(b[Len(b)]) THEN TrimRight(SubSeq(b, 1, Len(b) - 1)) ELSE b

TrimSpace(b) == TrimRight(TrimLeft(b))

Min(x, y) == IF x < y THEN x ELSE y

\* The loop of splitLine over the remaining runes.
RECURSIVE splitRunes(_)
splitRunes(runes) ==
    IF Len(runes) = 0 THEN <<>>
    ELSE LET n == Min(maxDiscordMessageLength, Len(runes))
         IN <<EncodeRunes(SubSeq(runes, 1, n))>>
                \o splitRunes(SubSeq(runes, n + 1, Len(runes)))

\* The same loop over the bytes of the line.
RECURSIVE splitBytes(_)
splitBytes(b) ==
    IF Len(b) = 0 THEN <<>>
    ELSE LET n == Min(maxDiscordMessageLength, Len(b))
         IN <<SubSeq(b, 1, n)>> \o splitBytes(SubSeq(b, n + 1, Len(b)))

splitLineBytes(line) ==
    IF Len(line) <= maxDiscordMessageLength THEN <<line>> ELSE splitBytes(line)

splitLine(line) ==
    LET runes == DecodeRunes(line)
    IN IF Len(runes) <= maxDiscordMessageLength THEN <<line>> ELSE splitRunes(runes)

\* strings.Join([]string{content, line}, "\n")
JoinNewline(content, line) == content \o <<10>> \o line

\* newContent of appendToCurrentLocked
NewContent(content, line) ==
    IF content # <<>> THEN JoinNewline(content, line) ELSE line

\* wouldExceedLimitLocked with a.current.content = content (a.current # nil)
wouldExceedAtLimit(content, line) ==
    LET extra == Len(line) + (IF content # <<>> THEN 1 ELSE 0)
    IN Len(content) + extra >= maxDiscordMessageLength

wouldExceedLimitLocked(content, line) ==
    LET extra == Len(line) + (IF content # <<>> THEN 1 ELSE 0)
    IN Len(content) + extra > maxDiscordMessageLength

InitAggregator ==
    /\ aggCurrent = 0
    /\ states = <<>>
    /\ aggTimers = <<>>
    /\ mu = 0
    /\ calls = <<>>
    /\ sink = <<>>

\* resetTimerLocked(state): stop the state's timer and arm a new one whose
\* callback captures the state.  A callback that has run is "done"; saw is
\* the a.current it found, left the one it left and held the holder of a.mu
\* it ran beside (0: none).
aggResetTimerLocked(ts, msg, old) ==
    Append(TimerStop(ts, old),
           [msg |-> msg, state |-> "armed", saw |-> 0, left |-> 0, held |-> 0])

\* a.mu.Lock() can return: the mutex is free.
muFreeAlways == TRUE

muFree == mu = 0

\* A line of n times the rune r.
Rep(r, n) == [i \in 1..n |-> r]

\* The lines AddLine is called with: the one-byte rune "a", two of the
\* three-byte rune U+300C that consumeSegment puts in every line, a line one
\* rune over the maximum and one that is only white space.
AggLines ==
    { EncodeRunes(Rep(97, 1)),
      EncodeRunes(Rep(97, maxDiscordMessageLength + 1)),
      EncodeRunes(Rep(12300, 2)),
      <<32>> }

\* AddLine(line) up to a.mu.Lock(): trim, return on an empty line.
\* arrivedDuring is history: the holder of a.mu at that moment.
AddLine(line) ==
    LET trimmed == TrimSpace(line)
    IN /\ calls' = Append(calls,
              [line |-> line,
               parts |-> IF trimmed = <<>> THEN <<>> ELSE splitLine(trimmed),
               chunks |-> IF trimmed = <<>> THEN <<>> ELSE splitLine(trimmed),
               pc |-> IF trimmed = <<>> THEN "done" ELSE "lock",
               err |-> FALSE,
               open |-> 0, found |-> 0, had |-> <<>>, arrivedDuring |-> mu,
               before |-> [open |-> 0, content |-> <<>>]])
       /\ UNCHANGED <<aggCurrent, states, aggTimers, mu, sink>>

\* a.mu.Lock() of AddLine call c returns.  History: open is the message the
\* call finds open (0: none), had its content, and found is open when its
\* window timer is still armed.
AddLineLock(c) ==
    /\ calls[c].pc = "lock"
    /\ muFree
    /\ mu' = c
    /\ calls' = [calls EXCEPT ![c].pc = "loop",
                              ![c].open = aggCurrent,
                              ![c].had = IF aggCurrent # 0 THEN states[aggCurrent].content
                                         ELSE <<>>,
                              ![c].found = IF aggCurrent # 0
                                              /\ aggTimers[states[aggCurrent].timer].state = "armed"
                                           THEN aggCurrent ELSE 0]
    /\ UNCHANGED <<aggCurrent, states, aggTimers, sink>>

\* finalizeCurrentLocked with a.current # nil; closedBy -1 is history, and
\* closedAt the number of sink calls that had returned by then.
finalizeKeepCurrent ==
    /\ aggTimers' = TimerStop(aggTimers, states[aggCurrent].timer)
    /\ states' = [states EXCEPT ![aggCurrent].closedBy = -1,
                                ![aggCurrent].closedAt = Len(sink)]
    /\ aggCurrent' = aggCurrent

finalizeCurrentLocked ==
    /\ aggTimers' = TimerStop(aggTimers, states[aggCurrent].timer)
    /\ states' = [states EXCEPT ![aggCurrent].closedBy = -1,
                                ![aggCurrent].closedAt = Len(sink)]
    /\ aggCurrent' = 0

\* The message open at the top of a turn of AddLine's loop and its content.
Before ==
    [open |-> aggCurrent,
     content |-> IF aggCurrent # 0 THEN states[aggCurrent].content ELSE <<>>]

\* One turn of AddLine's loop up to the sink call: return when the chunks
\* are used up, else choose between a new message and an append and start
\* the SendMessage or EditMessage call.  before is history.
AddLineChunk(c) ==
    /\ calls[c].pc = "loop"
    /\ UNCHANGED sink
    /\ IF calls[c].chunks = <<>>
       THEN /\ calls' = [calls EXCEPT ![c].pc = "done"]
            /\ mu' = 0
            /\ UNCHANGED <<aggCurrent, states, aggTimers>>
       ELSE /\ UNCHANGED mu
            /\ IF aggCurrent = 0
               THEN /\ calls' = [calls EXCEPT ![c].pc = "send", ![c].before = Before]
                    /\ UNCHANGED <<aggCurrent, states, aggTimers>>
               ELSE IF wouldExceedLimitLocked(states[aggCurrent].content, Head(calls[c].chunks))
               THEN /\ finalizeCurrentLocked
                    /\ calls' = [calls EXCEPT ![c].pc = "send", ![c].before = Before]
               ELSE /\ calls' = [calls EXCEPT ![c].pc = "edit", ![c].before = Before]
                    /\ UNCHANGED <<aggCurrent, states, aggTimers>>

\* AddLine returns err through the deferred a.mu.Unlock().
ReturnErr(c) ==
    /\ calls' = [calls EXCEPT ![c].pc = "done", ![c].err = TRUE]
    /\ mu' = 0

\* startNewMessageLocked from the return of SendMessage on; the message id is
\* the number of the message.  History in the sink record: before is the
\* message open at the top of the loop turn, during the a.current while the
\* call ran, timerState the state of that message's window timer.
startNewMessageLocked(c, ok) ==
    /\ calls[c].pc = "send"
    /\ LET line == Head(calls[c].chunks)
           new == Len(states) + 1
           ts == aggResetTimerLocked(aggTimers, new, 0)
       IN /\ sink' = Append(sink, [op |-> "send", id |-> IF ok THEN new ELSE 0,
                                   content |-> line, ok |-> ok, call |-> c,
                                   chunk |-> line, before |-> calls[c].before,
                                   during |-> aggCurrent,
                                   timerState |->
                                       IF calls[c].before.open = 0 THEN "none"
                                       ELSE aggTimers[states[calls[c].before.open].timer].state])
          /\ IF ~ok
             THEN /\ ReturnErr(c)
                  /\ UNCHANGED <<aggCurrent, states, aggTimers>>
             ELSE /\ states' = Append(states, [id |-> new, lines |-> <<line>>,
                                               content |-> line, timer |-> Len(ts),
                                               closedBy |-> 0, closedAt |-> 0])
                  /\ aggCurrent' = new
                  /\ aggTimers' = ts
                  /\ calls' = [calls EXCEPT ![c].pc = "loop",
                                            ![c].chunks = Tail(calls[c].chunks)]
                  /\ UNCHANGED mu

\* What appendToCurrentLocked leaves in the message states and the timers
\* once EditMessage has returned ok.
appendStateFirst(sts, ts, cur, line, ok) ==
    LET ts2 == aggResetTimerLocked(ts, cur, sts[cur].timer)
    IN [states |-> [sts EXCEPT ![cur].lines = Append(sts[cur].lines, line),
                               ![cur].content = NewContent(sts[cur].content, line),
                               ![cur].timer = Len(ts2)],
        timers |-> ts2]

appendToCurrentLocked(sts, ts, cur, line, ok) ==
    IF ~ok THEN [states |-> sts, timers |-> ts]
    ELSE LET ts2 == aggResetTimerLocked(ts, cur, sts[cur].timer)
         IN [states |-> [sts EXCEPT ![cur].lines = Append(sts[cur].lines, line),
                                    ![cur].content = NewContent(sts[cur].content, line),
                                    ![cur].timer = Len(ts2)],
             timers |-> ts2]

\* appendToCurrentLocked from the return of EditMessage on; timerState is
\* history: the state of the message's window timer at that moment.
AddLineEdit(c, ok) ==
    /\ calls[c].pc = "edit"
    /\ LET line == Head(calls[c].chunks)
           r == appendToCurrentLocked(states, aggTimers, aggCurrent, line, ok)
       IN /\ sink' = Append(sink, [op |-> "edit", id |-> states[aggCurrent].id,
                                   content |-> NewContent(states[aggCurrent].content, line),
                                   ok |-> ok, call |-> c, chunk |-> line,
                                   before |-> calls[c].before,
                                   during |-> aggCurrent,
                                   timerState |->
                                       aggTimers[states[aggCurrent].timer].state])
          /\ states' = r.states
          /\ aggTimers' = r.timers
          /\ UNCHANGED aggCurrent
          /\ IF ~ok
             THEN ReturnErr(c)
             ELSE /\ calls' = [calls EXCEPT ![c].pc = "loop",
                                            ![c].chunks = Tail(calls[c].chunks)]
                  /\ UNCHANGED mu

\* The runtime fires an armed window timer: its callback is started and will
\* take a.mu.
AggTimerExpire(t) ==
    /\ aggTimers[t].state = "armed"
    /\ aggTimers' = [aggTimers EXCEPT ![t].state = "expired"]
    /\ UNCHANGED <<aggCurrent, states, mu, calls, sink>>

\* The a.current the callback of a timer armed for msg leaves.
windowElapsedKeep(cur, msg) == cur

windowElapsedAlways(cur, msg) == 0

windowElapsed(cur, msg) == IF cur = msg THEN 0 ELSE cur

\* The callback of resetTimerLocked, under a.mu; closedBy is history.
AggTimerCallback(t) ==
    /\ aggTimers[t].state = "expired"
    /\ muFree
    /\ aggCurrent' = windowElapsed(aggCurrent, aggTimers[t].msg)
    /\ aggTimers' = [aggTimers EXCEPT ![t].state = "done", ![t].saw = aggCurrent,
                                      ![t].left = aggCurrent', ![t].held = mu]
    /\ states' = IF aggCurrent' # aggCurrent
                 THEN [states EXCEPT ![aggCurrent].closedBy = t,
                                     ![aggCurrent].closedAt = Len(sink)]
                 ELSE states
    /\ UNCHANGED <<mu, calls, sink>>

AggAddLine ==
    /\ Len(calls) < MaxLines
    /\ \E line \in AggLines : AddLine(line)
    /\ UNCHANGED <<segVars, resVars, rcvVars, botVars>>

\* The lines of SpecSplitLine: up to 2 * maxDiscordMessageLength + 1 runes,
\* each "a" or U+300C, with or without a space before and after.
SplitLines ==
    {pre \o EncodeRunes(core) \o post :
        pre \in {<<>>, <<32>>}, post \in {<<>>, <<32>>},
        core \in UNION {[1..k -> {97, 12300}] : k \in 0..(2 * maxDiscordMessageLength + 1)}}

\* One AddLine call on a new Aggregator.
SplitAddLine ==
    /\ calls = <<>>
    /\ \E line \in SplitLines : AddLine(line)
    /\ UNCHANGED <<segVars, resVars, rcvVars, botVars>>

AggLock ==
    /\ \E c \in 1..Len(calls) : AddLineLock(c)
    /\ UNCHANGED <<segVars, resVars, rcvVars, botVars>>

AggChunk ==
    /\ \E c \in 1..Len(calls) : AddLineChunk(c)
    /\ UNCHANGED <<segVars, resVars, rcvVars, botVars>>

AggSend ==
    /\ \E c \in 1..Len(calls), ok \in BOOLEAN : startNewMessageLocked(c, ok)
    /\ UNCHANGED <<segVars, resVars, rcvVars, botVars>>

AggEdit ==
    /\ \E c \in 1..Len(calls), ok \in BOOLEAN : AddLineEdit(c, ok)
    /\ UNCHANGED <<segVars, resVars, rcvVars, botVars>>

AggWindowExpire ==
    /\ Cardinality({t \in 1..Len(aggTimers) : aggTimers[t].state = "expired"}) < MaxExpired
    /\ \E t \in 1..Len(aggTimers) : AggTimerExpire(t)
    /\ UNCHANGED <<segVars, resVars, rcvVars, botVars>>

AggWindowCallback ==
    /\ \E t \in 1..Len(aggTimers) : AggTimerCallback(t)
    /\ UNCHANGED <<segVars, resVars, rcvVars, botVars>>

\* ============================================================== claims: Aggregator
\* The SendMessage / EditMessage calls AddLine call c has made, in order.
SinkOf(c) == SelectSeq(sink, LAMBDA e : e.call = c)

\* lines joined by "\n"
RECURSIVE JoinLines(_)
JoinLines(ls) ==
    IF ls = <<>> THEN <<>>
    ELSE IF Len(ls) = 1 THEN ls[1]
    ELSE JoinNewline(JoinLines(SubSeq(ls, 1, Len(ls) - 1)), ls[Len(ls)])

\* AddLine call c has returned nil after a single chunk.
OneChunkDone(c) ==
    calls[c].pc = "done" /\ ~calls[c].err /\ Len(calls[c].parts) = 1

\* C11: an AddLine of one chunk that finds no open message makes one send
\* and no edit; one that finds a message open whose window has not elapsed,
\* and fits, makes no send and one edit with all lines of the message joined
\* by newlines; and only the timer armed by the last line added to a message
\* closes it.
C11_AppendsWithinWindowEdit ==
    /\ \A c \in 1..Len(calls) :
          (OneChunkDone(c) /\ calls[c].open = 0)
              => /\ Len(SinkOf(c)) = 1
                 /\ SinkOf(c)[1].op = "send"
    /\ \A c \in 1..Len(calls) :
          (OneChunkDone(c) /\ calls[c].found # 0
             /\ ~wouldExceedLimitLocked(calls[c].had, calls[c].parts[1]))
              => /\ Len(SinkOf(c)) = 1
                 /\ SinkOf(c)[1].op = "edit"
                 /\ SinkOf(c)[1].id = states[calls[c].found].id
                 /\ SinkOf(c)[1].content = JoinNewline(calls[c].had, calls[c].parts[1])
    /\ \A m \in 1..Len(states) : states[m].content = JoinLines(states[m].lines)
    /\ \A m \in 1..Len(states) :
          states[m].closedBy > 0 => states[m].closedBy = states[m].timer

\* C12: once the callback of the timer armed by the last line of a message
\* has run, the message is not the open one; an AddLine that finds no open
\* message starts with a send, and no edit is made to a message whose window
\* timer has run.
C12_ElapsedWindowStartsNewMessage ==
    /\ \A m \in 1..Len(states) :
          aggTimers[states[m].timer].state = "done" => aggCurrent # m
    /\ \A c \in 1..Len(calls) :
          (calls[c].open = 0 /\ SinkOf(c) # <<>>) => SinkOf(c)[1].op = "send"
    /\ \A i \in 1..Len(sink) :
          sink[i].op = "edit" => sink[i].timerState # "done"

\* A message was closed by its window timer and a later AddLine has sent a
\* new message.
C12_Witness ==
    \E m \in 1..Len(states), c \in 1..Len(calls) :
        /\ states[m].closedBy = states[m].timer
        /\ calls[c].pc = "done" /\ ~calls[c].err
        /\ calls[c].open = 0
        /\ SinkOf(c) # <<>>
        /\ SinkOf(c)[1].op = "send" /\ SinkOf(c)[1].id > m

\* The parts of a split, concatenated.
RECURSIVE ConcatParts(_)
ConcatParts(ps) == IF ps = <<>> THEN <<>> ELSE Head(ps) \o ConcatParts(Tail(ps))

\* The number of runes of a string.
RuneCount(b) == Len(DecodeRunes(b))

\* C13: AddLine splits a trimmed line of L runes, L above the maximum M, into
\* ceil(L/M) chunks of at most M runes each whose concatenation is the
\* trimmed line, and a line of at most M runes into one chunk; the chunks
\* reach the sink one at a time in that order.
C13_SplitLineChunks ==
    \A c \in 1..Len(calls) :
        LET trimmed == TrimSpace(calls[c].line)
            L == RuneCount(trimmed)
            parts == calls[c].parts
            made == SinkOf(c)
        IN trimmed # <<>> =>
              /\ Len(parts) = IF L <= maxDiscordMessageLength THEN 1
                              ELSE (L + maxDiscordMessageLength - 1) \div maxDiscordMessageLength
              /\ \A i \in 1..Len(parts) : RuneCount(parts[i]) <= maxDiscordMessageLength
              /\ ConcatParts(parts) = trimmed
              /\ Len(made) <= Len(parts)
              /\ \A i \in 1..Len(made) : made[i].chunk = parts[i]
              /\ (calls[c].pc = "done" /\ ~calls[c].err) => Len(made) = Len(parts)

\* A line with white space around it and three-byte runes in it has gone to
\* the sink in three chunks.
C13_Witness ==
    \E c \in 1..Len(calls) :
        /\ calls[c].pc = "done" /\ ~calls[c].err
        /\ TrimSpace(calls[c].line) # calls[c].line
        /\ Len(calls[c].parts) = 3
        /\ Len(SinkOf(c)) = 3
        /\ \E i \in 1..3 : Len(calls[c].parts[i]) > RuneCount(calls[c].parts[i])

\* C14: the content of every message sent or edited, and of every message
\* state, is at most the maximum size in bytes, the unit of
\* wouldExceedLimitLocked.
C14_ContentWithinMaximum ==
    /\ \A i \in 1..Len(sink) : Len(sink[i].content) <= maxDiscordMessageLength
    /\ \A m \in 1..Len(states) : Len(states[m].content) <= maxDiscordMessageLength

\* C15: a chunk that finds a message open is appended by an edit of that
\* message when the content joined by a newline is at most the maximum size;
\* otherwise there is no edit, the open message's timer is not left armed,
\* a.current is nil while SendMessage runs, and the chunk starts a new
\* message.
C15_OverflowStartsNewMessage ==
    /\ \A i \in 1..Len(sink) :
          LET e == sink[i]
          IN e.before.open # 0 =>
                IF Len(JoinNewline(e.before.content, e.chunk)) > maxDiscordMessageLength
                THEN /\ e.op = "send"
                     /\ e.during = 0
                     /\ e.timerState # "armed"
                     /\ e.content = e.chunk
                     /\ e.ok => (e.id # states[e.before.open].id
                                   /\ states[e.id].lines[1] = e.chunk)
                ELSE /\ e.op = "edit"
                     /\ e.id = states[e.before.open].id
                     /\ e.during = e.before.open
                     /\ e.content = JoinNewline(e.before.content, e.chunk)
    /\ \A c \in 1..Len(calls) :
          /\ calls[c].pc = "send" => aggCurrent = 0
          /\ calls[c].pc = "edit" => aggCurrent = calls[c].before.open /\ aggCurrent # 0

\* One chunk has filled a message to exactly the maximum size by an edit and
\* the next one has started a new message.
C15_Witness ==
    \E i, j \in 1..Len(sink) :
        /\ i < j
        /\ sink[i].op = "edit" /\ sink[i].ok
        /\ Len(sink[i].content) = maxDiscordMessageLength
        /\ sink[j].op = "send" /\ sink[j].ok
        /\ sink[j].before.open # 0
        /\ states[sink[j].before.open].id = sink[i].id

\* The positions in the sink history of the calls the sink accepted for the
\* message with identifier id, in order.
Accepted(id) ==
    SelectSeq([i \in 1..Len(sink) |-> i], LAMBDA i : sink[i].ok /\ sink[i].id = id)

\* The number of calls the sink accepted among the first i: each of them
\* armed one window timer.
AcceptedUpTo(i) == Cardinality({j \in 1..i : sink[j].ok})

\* C16: a failed edit makes AddLine return the error and leaves the message
\* state as it was: at all times the lines, the content and the timer of a
\* message state are those of the calls the sink accepted for it, and every
\* edit is computed from the last content the sink accepted.
C16_FailedEditKeepsState ==
    /\ \A i \in 1..Len(sink) :
          (sink[i].op = "edit" /\ ~sink[i].ok) =>
              /\ calls[sink[i].call].pc = "done"
              /\ calls[sink[i].call].err
              /\ \A j \in (i + 1)..Len(sink) : sink[j].call # sink[i].call
    /\ \A m \in 1..Len(states) :
          LET acc == Accepted(states[m].id)
          IN /\ acc # <<>>
             /\ states[m].lines = [k \in 1..Len(acc) |-> sink[acc[k]].chunk]
             /\ states[m].content = sink[acc[Len(acc)]].content
             /\ states[m].timer = AcceptedUpTo(acc[Len(acc)])
    /\ \A i \in 1..Len(sink) :
          sink[i].op = "edit" =>
              LET earlier == SelectSeq(Accepted(sink[i].id), LAMBDA j : j < i)
              IN /\ earlier # <<>>
                 /\ sink[i].content
                      = JoinNewline(sink[earlier[Len(earlier)]].content, sink[i].chunk)

\* An edit has failed and a later AddLine has appended to the same message.
C16_Witness ==
    \E i, j \in 1..Len(sink) :
        /\ i < j
        /\ sink[i].op = "edit" /\ ~sink[i].ok
        /\ sink[j].op = "edit" /\ sink[j].ok
        /\ sink[j].id = sink[i].id
        /\ sink[j].content = sink[i].content
        /\ aggTimers[states[sink[j].before.open].timer].state = "armed"

\* C17: the callback of a window timer armed for a message that is no
\* longer the open one leaves a.current as it found it; a message is only
\* ever closed by a timer armed for it.
C17_StaleWindowTimerIgnored ==
    /\ \A t \in 1..Len(aggTimers) :
          (aggTimers[t].state = "done" /\ aggTimers[t].saw # aggTimers[t].msg)
              => aggTimers[t].left = aggTimers[t].saw
    /\ \A m \in 1..Len(states) :
          states[m].closedBy > 0 => aggTimers[states[m].closedBy].msg = m

\* The callback of the timer of a finalized message has run while a newer
\* message was open, and that message is still open.
C17_Witness ==
    \E t \in 1..Len(aggTimers) :
        /\ aggTimers[t].state = "done"
        /\ states[aggTimers[t].msg].closedBy = -1
        /\ aggTimers[t].saw > aggTimers[t].msg
        /\ aggCurrent = aggTimers[t].saw

\* AddLine call c is between its a.mu.Lock() and its return.
InAddLine(c) == calls[c].pc \in {"loop", "send", "edit"}

\* The sink call of AddLine call c is running.
SinkCallRunning(c) == calls[c].pc \in {"send", "edit"}

\* C18: a.mu is not held by an AddLine call while its SendMessage or
\* EditMessage call is running.
C18_NoLockAcrossSinkCall ==
    \A c \in 1..Len(calls) : SinkCallRunning(c) => mu # c

\* C19: at most one AddLine call is inside the critical section and it is
\* the holder of a.mu; the sink calls of one AddLine call are consecutive in
\* the sink history; a window timer callback never runs while an AddLine
\* call is inside the critical section.
C19_AddLineSerialized ==
    /\ \A c \in 1..Len(calls) : InAddLine(c) <=> mu = c
    /\ \A i, j, k \in 1..Len(sink) :
          (i < j /\ j < k /\ sink[i].call = sink[k].call) => sink[j].call = sink[i].call
    /\ \A t \in 1..Len(aggTimers) : aggTimers[t].held = 0

\* Two AddLine calls of two chunks each have overlapped, the second arriving
\* while the first held a.mu, and a window timer callback has run.
C19_Witness ==
    \E c, d \in 1..Len(calls) :
        /\ calls[d].arrivedDuring = c
        /\ calls[c].pc = "done" /\ calls[d].pc = "done"
        /\ Len(SinkOf(c)) = 2 /\ Len(SinkOf(d)) = 2
        /\ \E t \in 1..Len(aggTimers) : aggTimers[t].state = "done"

\* ============================================================== specifications
\* The id the most recent successful send before sink call i returned (0: none).
LastSentBefore(i) ==
    LET S == {j \in 1..(i - 1) : sink[j].op = "send" /\ sink[j].ok}
    IN IF S = {} THEN 0 ELSE sink[CHOOSE j \in S : \A k \in S : k <= j].id

\* C24: every edit targets the message that is a.current while the call
\* runs, and that is the message of the most recent successful send; after a
\* message has been closed (by a window timer or by finalizeCurrentLocked
\* before a newer message) no edit is sent for its id.
C24_EditsTargetOpenMessage ==
    /\ \A i \in 1..Len(sink) :
          sink[i].op = "edit"
              => /\ sink[i].during # 0
                 /\ sink[i].id = states[sink[i].during].id
                 /\ sink[i].id = LastSentBefore(i)
    /\ \A m \in 1..Len(states) :
          states[m].closedBy # 0
              => \A i \in (states[m].closedAt + 1)..Len(sink) :
                    ~(sink[i].op = "edit" /\ sink[i].id = states[m].id)

\* A message was edited, was then closed by its window timer, and a later
\* line was added by a send of a newer message.
C24_Witness ==
    \E m \in 1..Len(states), i, j \in 1..Len(sink) :
        /\ states[m].closedBy > 0
        /\ i <= states[m].closedAt /\ sink[i].op = "edit" /\ sink[i].ok
        /\ sink[i].id = states[m].id
        /\ j > states[m].closedAt /\ sink[j].op = "send" /\ sink[j].ok

\* C29: a failed send makes AddLine return the error and creates no message
\* state, and the message that was open at the top of that loop turn is
\* still a.current, its window timer not stopped, when the send returns.
C29_FailedSendKeepsOpenMessage ==
    /\ \A i \in 1..Len(sink) :
          (sink[i].op = "send" /\ ~sink[i].ok)
              => /\ calls[sink[i].call].err
                 /\ calls[sink[i].call].pc = "done"
                 /\ sink[i].before.open # 0
                      => /\ sink[i].during = sink[i].before.open
                         /\ sink[i].timerState # "stopped"
    /\ Len(states) = Cardinality({i \in 1..Len(sink) : sink[i].op = "send" /\ sink[i].ok})

\* ============================================================== Bot: consumeSegment
\* audio.Channels, and the thresholds of bot.go in milliseconds and in
\* sample units; the README gives the duration threshold as 250 ms.
Channels == 1
minSegmentDuration == 400
minAverageAmplitude == 900
readmeSegmentDuration == 250

\* The sum shouldSendSegment's loop builds: the absolute values, as int64.
RECURSIVE SumAbs(_)
SumAbs(samples) ==
    IF samples = <<>> THEN 0
    ELSE (IF Head(samples) < 0 THEN -Head(samples) ELSE Head(samples)) + SumAbs(Tail(samples))

\* duration of shouldSendSegment, in milliseconds.  The Go value is the same
\* quotient in nanoseconds; x \div y < n and the same with both x and n
\* scaled by a factor agree, so the comparison with the threshold is exact.
SegDuration(samples) == (Len(samples) * 1000) \div (SampleRate * Channels)

shouldSendSegment(samples) ==
    IF Len(samples) = 0 THEN FALSE
    ELSE IF SegDuration(samples) < minSegmentDuration THEN FALSE
    ELSE SumAbs(samples) \div Len(samples) >= minAverageAmplitude

\* The sample values of SpecFilter: at, just under and just over the
\* amplitude threshold.
FilterSamples == {-900, 899, 901}

\* The Segmenter starts consumeSegment with a segment.
FilterSegment ==
    /\ filt.pc = "idle"
    /\ \E n \in 0..MaxSegmentLen : \E samples \in [1..n -> FilterSamples] :
          filt' = [pc |-> "check", samples |-> samples, sent |-> FALSE]
    /\ UNCHANGED <<segVars, resVars, rcvVars, aggVars>>
    /\ UNCHANGED <<leave, flushed, smuWait, consumed, down,
                   activeVoiceListeners, handlers, commands>>

\* consumeSegment up to its decision: return, or go on to write the WAV file
\* and call Transcribe (sent).
FilterDecide ==
    /\ filt.pc = "check"
    /\ filt' = [filt EXCEPT !.pc = "decided",
                            !.sent = Len(filt.samples) # 0 /\ shouldSendSegment(filt.samples)]
    /\ UNCHANGED <<segVars, resVars, rcvVars, aggVars>>
    /\ UNCHANGED <<leave, flushed, smuWait, consumed, down,
                   activeVoiceListeners, handlers, commands>>

\* ============================================================== Bot: voice handlers
Guilds == {"g"}
VoiceChannels == {"c1", "c2"}

\* handler.cancel(), handler.segmenter.Stop() and the disconnect, on handler h.
CancelHandler(hs, h) == [hs EXCEPT ![h].cancelled = TRUE, ![h].stopped = TRUE]

\* joinVoiceChannel's first critical section under voiceMu: return when the
\* guild's handler is on the same channel, else cancel it and take it out of
\* the map.
JoinCheck(guildID, channelID) ==
    /\ IF guildID \in DOMAIN activeVoiceListeners
       THEN LET h == activeVoiceListeners[guildID]
            IN IF handlers[h].channelID = channelID
               THEN /\ commands' = Append(commands, [op |-> "join", guildID |-> guildID,
                                                     channelID |-> channelID,
                                                     pc |-> "done", handler |-> 0])
                    /\ UNCHANGED <<handlers, activeVoiceListeners>>
               ELSE /\ commands' = Append(commands, [op |-> "join", guildID |-> guildID,
                                                     channelID |-> channelID,
                                                     pc |-> "connect", handler |-> 0])
                    /\ handlers' = CancelHandler(handlers, h)
                    /\ activeVoiceListeners' = MapDel(activeVoiceListeners, guildID)
       ELSE /\ commands' = Append(commands, [op |-> "join", guildID |-> guildID,
                                             channelID |-> channelID,
                                             pc |-> "connect", handler |-> 0])
            /\ UNCHANGED <<handlers, activeVoiceListeners>>

\* joinVoiceChannel outside voiceMu: ChannelVoiceJoin fails and the call
\* returns, or it succeeds and the segmenter, the resolver and the receiver
\* are created and the receiver is started.
JoinStart(c, ok) ==
    /\ commands[c].pc = "connect"
    /\ IF ok
       THEN /\ handlers' = Append(handlers, [guildID |-> commands[c].guildID,
                                             channelID |-> commands[c].channelID,
                                             cancelled |-> FALSE, stopped |-> FALSE])
            /\ commands' = [commands EXCEPT ![c].pc = "register",
                                            ![c].handler = Len(handlers) + 1]
       ELSE /\ commands' = [commands EXCEPT ![c].pc = "done"]
            /\ UNCHANGED handlers
    /\ UNCHANGED activeVoiceListeners

\* joinVoiceChannel's second critical section: store the handler.
JoinRegister(c) ==
    /\ commands[c].pc = "register"
    /\ activeVoiceListeners' =
          MapPut(activeVoiceListeners, commands[c].guildID, commands[c].handler)
    /\ commands' = [commands EXCEPT ![c].pc = "done"]
    /\ UNCHANGED handlers

\* leaveVoiceChannel's critical section: look the handler up and delete it.
LeaveTake(guildID) ==
    /\ IF guildID \in DOMAIN activeVoiceListeners
       THEN /\ commands' = Append(commands, [op |-> "leave", guildID |-> guildID,
                                             channelID |-> "", pc |-> "cancel",
                                             handler |-> activeVoiceListeners[guildID]])
            /\ activeVoiceListeners' = MapDel(activeVoiceListeners, guildID)
       ELSE /\ commands' = Append(commands, [op |-> "leave", guildID |-> guildID,
                                             channelID |-> "", pc |-> "done",
                                             handler |-> 0])
            /\ UNCHANGED activeVoiceListeners
    /\ UNCHANGED handlers

\* The rest of leaveVoiceChannel, outside voiceMu.
LeaveCancel(c) ==
    /\ commands[c].pc = "cancel"
    /\ handlers' = CancelHandler(handlers, commands[c].handler)
    /\ commands' = [commands EXCEPT ![c].pc = "done"]
    /\ UNCHANGED activeVoiceListeners

\* Bot.shutdown under voiceMu: cancel every handler of the map and empty
\* the map.  It does not touch b.aggregator, and the Aggregator has no
\* method that stops it.  down is history.
Shutdown ==
    /\ ~down.done
    /\ down' = [done |-> TRUE, sinkLen |-> Len(sink)]
    /\ handlers' = [h \in 1..Len(handlers) |->
                       IF \E g \in DOMAIN activeVoiceListeners : activeVoiceListeners[g] = h
                       THEN [handlers[h] EXCEPT !.cancelled = TRUE, !.stopped = TRUE]
                       ELSE handlers[h]]
    /\ activeVoiceListeners' = EmptyMap
    /\ UNCHANGED <<segVars, resVars, rcvVars, aggVars>>
    /\ UNCHANGED <<leave, flushed, smuWait, consumed, filt, commands>>

BotJoin ==
    /\ Len(commands) < MaxCommands
    /\ \E guildID \in Guilds, channelID \in VoiceChannels : JoinCheck(guildID, channelID)
    /\ UNCHANGED <<segVars, resVars, rcvVars, aggVars>>
    /\ UNCHANGED <<leave, flushed, smuWait, consumed, down, filt>>

BotJoinStart ==
    /\ \E c \in 1..Len(commands), ok \in BOOLEAN : JoinStart(c, ok)
    /\ UNCHANGED <<segVars, resVars, rcvVars, aggVars>>
    /\ UNCHANGED <<leave, flushed, smuWait, consumed, down, filt>>

BotJoinRegister ==
    /\ \E c \in 1..Len(commands) : JoinRegister(c)
    /\ UNCHANGED <<segVars, resVars, rcvVars, aggVars>>
    /\ UNCHANGED <<leave, flushed, smuWait, consumed, down, filt>>

BotLeave ==
    /\ Len(commands) < MaxCommands
    /\ \E guildID \in Guilds : LeaveTake(guildID)
    /\ UNCHANGED <<segVars, resVars, rcvVars, aggVars>>
    /\ UNCHANGED <<leave, flushed, smuWait, consumed, down, filt>>

BotLeaveCancel ==
    /\ \E c \in 1..Len(commands) : LeaveCancel(c)
    /\ UNCHANGED <<segVars, resVars, rcvVars, aggVars>>
    /\ UNCHANGED <<leave, flushed, smuWait, consumed, down, filt>>

\* ============================================================== Bot: leaving the voice channel
\* leaveVoiceChannel (or shutdown) on the handler of the pipeline:
\* handler.cancel().
LeaveCancelCtx ==
    /\ leave = "none"
    /\ leave' = "cancelled"
    /\ UNCHANGED <<segVars, resVars, rcvVars, aggVars>>
    /\ UNCHANGED <<flushed, smuWait, consumed, down, filt,
                   activeVoiceListeners, handlers, commands>>

\* Every Stop of the pipeline has returned after this step: flushed is the
\* number of consumer invocations started by then (-1 before).
FinalFlush(loopExited, leaveStopped) ==
    IF loopExited /\ leaveStopped THEN Len(segments') ELSE flushed

\* leaveVoiceChannel: handler.segmenter.Stop().
LeaveStop ==
    /\ leave = "cancelled"
    /\ leave' = "stopped"
    /\ Stop
    /\ flushed' = FinalFlush(loop.pc = "exited", TRUE)
    /\ UNCHANGED <<resVars, rcvVars, aggVars>>
    /\ UNCHANGED <<smuWait, consumed, down, filt,
                   activeVoiceListeners, handlers, commands>>

\* consume's select takes case <-ctx.Done(): the loop returns and the
\* deferred r.segmenter.Stop() runs.  While a packet is ready too the
\* select may take the packet instead.
LoopExit ==
    /\ loop.pc = "recv"
    /\ leave # "none"
    /\ loop' = [loop EXCEPT !.pc = "exited"]
    /\ Stop
    /\ flushed' = FinalFlush(TRUE, leave = "stopped")
    /\ UNCHANGED <<resVars, pending, unknownSSRC, decoders, packets, awaits, hist, aggVars>>
    /\ UNCHANGED <<leave, smuWait, consumed, down, filt,
                   activeVoiceListeners, handlers, commands>>

\* Speaking updates of the pipeline's connection: none after the leave has
\* begun.
PipeSet ==
    /\ leave = "none"
    /\ RcvSet

PipeTake ==
    /\ Len(packets) < MaxPipePackets
    /\ RcvTake

\* ============================================================== Segmenter and its consumers
\* flushLocked hands the segment to the consumer with `go s.consumer(...)`:
\* of the consumer invocations `new` it has started, the ones the caller,
\* which holds s.mu, waits for before it goes on.
flushWaitsSync(new) == new

flushWaits(new) == {}

\* s.mu.Lock() can return: no holder of s.mu is waiting for a consumer.
SegMuFree == smuWait \ consumed = {}

\* The packet loop's AddSamples or bufferPending, the former under s.mu.
IngDeliver ==
    /\ loop.userID # NoUser => SegMuFree
    /\ RcvDeliver

\* A silence timer's callback, under s.mu.
IngTimerCallback ==
    /\ SegMuFree
    /\ \E t \in 1..Len(timers) : TimerCallback(t)
    /\ smuWait' = flushWaits((Len(segments) + 1)..Len(segments'))
    /\ UNCHANGED <<resVars, rcvVars, aggVars>>
    /\ UNCHANGED <<leave, flushed, consumed, down, filt,
                   activeVoiceListeners, handlers, commands>>

\* A consumer invocation (consumeSegment: transcription and posting)
\* returns; it may as well never do so.
ConsumerReturn ==
    /\ \E i \in (1..Len(segments)) \ consumed : consumed' = consumed \cup {i}
    /\ UNCHANGED <<segVars, resVars, rcvVars, aggVars>>
    /\ UNCHANGED <<leave, flushed, smuWait, down, filt,
                   activeVoiceListeners, handlers, commands>>

\* ============================================================== claims: Bot
\* C23: a segment goes to transcription exactly when it lasts at least
\* 250 ms and the average of the absolute values of its samples is at or
\* above the amplitude threshold.
C23_NoiseFilter ==
    filt.pc = "decided" =>
        (filt.sent <=>
            /\ Len(filt.samples) * 1000 >= readmeSegmentDuration * SampleRate * Channels
            /\ Len(filt.samples) > 0
            /\ SumAbs(filt.samples) >= minAverageAmplitude * Len(filt.samples))

\* C22: once shutdown has returned no window timer of the Aggregator is
\* armed and no edit is sent to the sink.
C22_ShutdownTearsDownAggregator ==
    down.done =>
        /\ \A t \in 1..Len(aggTimers) : aggTimers[t].state # "armed"
        /\ \A i \in (down.sinkLen + 1)..Len(sink) : sink[i].op # "edit"

\* The handlers of guildID whose receiver and segmenter were started and
\* have not been cancelled.
LiveHandlers(guildID) ==
    {h \in 1..Len(handlers) : handlers[h].guildID = guildID /\ ~handlers[h].cancelled}

\* C30: when no join or leave command is in progress, a guild has at most
\* one handler that was started and not cancelled, and that handler is the
\* one activeVoiceListeners records for the guild.
C30_OnePipelinePerGuild ==
    (\A c \in 1..Len(commands) : commands[c].pc = "done") =>
        \A g \in Guilds :
            /\ Cardinality(LiveHandlers(g)) <= 1
            /\ \A h \in LiveHandlers(g) :
                  g \in DOMAIN activeVoiceListeners /\ activeVoiceListeners[g] = h

\* C21: once the leave has cancelled the context and every Stop of the
\* Segmenter has returned, the packet loop has ended, no silence timer is
\* armed, and no consumer invocation is started any more.
C21_PipelineStopsAfterLeave ==
    flushed >= 0 =>
        /\ loop.pc = "exited"
        /\ \A t \in 1..Len(timers) : timers[t].state # "armed"
        /\ Len(segments) = flushed

\* C27: whatever consumer invocations are still running, the packet loop can
\* complete the AddSamples call of the frame it holds and an expired silence
\* timer can run its callback: neither waits for a consumer.
C27_IngestionNeverWaits ==
    /\ loop.pc = "deliver" => ENABLED IngDeliver
    /\ (\E t \in 1..Len(timers) : timers[t].state = "expired") => ENABLED IngTimerCallback

\* Two consumer invocations are running, and the packet loop has delivered
\* a frame into the Segmenter after the second was started.
C27_Witness ==
    \E i, j \in (1..Len(segments)) \ consumed :
        /\ i < j
        /\ Len(delivered) > segments[j].upto
        /\ delivered[Len(delivered)].samples # <<>>

\* The state after New (bot.go) and before any voice channel is joined.
InitBot ==
    /\ leave = "none"
    /\ flushed = -1
    /\ smuWait = {}
    /\ consumed = {}
    /\ down = [done |-> FALSE, sinkLen |-> 0]
    /\ filt = [pc |-> "idle", samples |-> <<>>, sent |-> FALSE]
    /\ activeVoiceListeners = EmptyMap
    /\ handlers = <<>>
    /\ commands = <<>>

Init == InitSegmenter /\ InitResolver /\ InitReceiver /\ InitAggregator /\ InitBot

NextSegmenter == SegAddSamples \/ SegTimerExpire \/ SegTimerCallback \/ SegStop

SpecSegmenter == Init /\ [][NextSegmenter]_vars

NextResolver ==
    \/ ResSet \/ ResSetSend \/ ResWaitEnter \/ ResWaitTimerFire
    \/ ResWaitRecv \/ ResWaitTimeout \/ ResWaitCleanup

SpecResolver == Init /\ [][NextResolver]_vars

\* The Receiver with its resolver and its Segmenter. The silence timers the
\* replayed and the immediate AddSamples calls arm stay armed here: what they
\* do when they expire is SpecSegmenter's subject.
NextReceiver ==
    \/ RcvTake \/ RcvDeliver
    \/ RcvAwaitStart \/ RcvAwaitReturn \/ RcvAwaitReplay
    \/ RcvSet \/ RcvSetSend
    \/ RcvWaitTimerFire \/ RcvWaitRecv \/ RcvWaitTimeout \/ RcvWaitCleanup

SpecReceiver == Init /\ [][NextReceiver]_vars

\* The Receiver when the runtime schedules every goroutine that can run and
\* fires every timer: an awaitMapping goroutine gets to call Wait and to go
\* on after it, the timeout of a Wait elapses, and its select and its
\* timeout branch run.
SpecReceiverFair ==
    /\ Init /\ [][NextReceiver]_vars
    /\ WF_vars(RcvAwaitStart)
    /\ WF_vars(RcvWaitTimerFire)
    /\ WF_vars(RcvWaitTimeout)
    /\ WF_vars(RcvWaitCleanup)
    /\ WF_vars(RcvAwaitReturn)

\* consumeSegment's decision on one segment.
NextFilter == FilterSegment \/ FilterDecide

SpecFilter == Init /\ [][NextFilter]_vars

NextAggregator ==
    \/ AggAddLine \/ AggLock \/ AggChunk \/ AggSend \/ AggEdit
    \/ AggWindowExpire \/ AggWindowCallback

SpecAggregator == Init /\ [][NextAggregator]_vars

\* One AddLine call with a line of SplitLines; with one call no chunk is ever
\* appended (a second chunk never fits after a first of the maximum size).
NextSplitLine ==
    \/ SplitAddLine \/ AggLock \/ AggChunk \/ AggSend
    \/ AggWindowExpire \/ AggWindowCallback

SpecSplitLine == Init /\ [][NextSplitLine]_vars

\* The Aggregator while the bot shuts its voice handlers down: consumeSegment
\* calls that were started before go on to call AddLine.
ShutAddLine ==
    /\ Len(calls) < MaxShutdownLines
    /\ AggAddLine

NextShutdown ==
    \/ ShutAddLine \/ AggLock \/ AggChunk \/ AggSend \/ AggEdit
    \/ AggWindowExpire \/ AggWindowCallback \/ Shutdown

SpecShutdown == Init /\ [][NextShutdown]_vars

\* The voice handlers of the bot under !join and !leave commands, whose
\* handlers discordgo runs in a goroutine each, and the shutdown.
NextBot ==
    \/ BotJoin \/ BotJoinStart \/ BotJoinRegister
    \/ BotLeave \/ BotLeaveCancel \/ Shutdown

SpecBot == Init /\ [][NextBot]_vars

\* One pipeline (Receiver, resolver, Segmenter with its silence timers)
\* while the bot leaves the voice channel.
NextPipeline ==
    \/ PipeTake \/ RcvDeliver
    \/ RcvAwaitStart \/ RcvAwaitReturn \/ RcvAwaitReplay
    \/ PipeSet \/ RcvSetSend
    \/ RcvWaitTimerFire \/ RcvWaitRecv \/ RcvWaitTimeout \/ RcvWaitCleanup
    \/ SegTimerExpire \/ SegTimerCallback
    \/ LeaveCancelCtx \/ LeaveStop \/ LoopExit

SpecPipeline == Init /\ [][NextPipeline]_vars

\* The packet loop and the Segmenter with consumers that take any time, or
\* for ever, to return.
NextIngest ==
    \/ RcvTake \/ IngDeliver \/ SegTimerExpire \/ IngTimerCallback \/ ConsumerReturn

SpecIngest == Init /\ [][NextIngest]_vars

\* The packet loop with failing decoders, for two source ids.
NextDecode == DecTake \/ RcvDeliver

SpecDecode == Init /\ [][NextDecode]_vars

====
